---- MODULE Spec2Model ----
(***************************************************************************)
(* Model of birdweather_report.py: fetch_bird_detections (cursor           *)
(* pagination over the BirdWeather detections API) and generate_report     *)
(* (per-species fold, ranking, hour cells).                                *)
(*                                                                         *)
(* JSON objects are functions from the keys that are present to their      *)
(* values, so that an absent key (KeyError on d['k']) differs from a key   *)
(* whose value is null (Python None).  Confidences are in percent          *)
(* (0.80 is 80).  A timestamp is its wall-clock hour plus its zone         *)
(* designator, which is all that line 66 looks at.                         *)
(***************************************************************************)
EXTENDS Integers, Sequences, FiniteSets, TLC

VARIABLES
    total,          \* upstream: number of detections in the window
    pc,             \* position in generate_report
    params,         \* fetch_bird_detections: params of the next request
    detections,     \* fetch_bird_detections: detections accumulated
    requests,       \* history: params of every request issued
    responses,      \* history: every response received
    species_stats,  \* generate_report: insertion-ordered dict, as entries
    folded,         \* generate_report: records the for loop has completed
    sorted_species  \* generate_report: the ranked list

vars == <<total, pc, params, detections, requests, responses,
          species_stats, folded, sorted_species>>

---------------------------------------------------------------------------
(* Bounds of the model *)

\* longest page whose records are drawn freely
MaxRecords == 3
\* most full pages the upstream holds
MaxFullPages == 2

(* Program constants *)

\* "limit": 100, and the short-page test len(...) < 100
Limit == 100
\* min(count * 25, 255)
ScaleFactor == 25
CapValue == 255

---------------------------------------------------------------------------
(* Values *)

\* Python None, which is also what JSON null parses to
None == [type |-> "None"]

\* a string or object the upstream attaches to the record at position p
Tok(kind, p) == [type |-> kind, n |-> p]

Has(obj, k) == k \in DOMAIN obj

Min(a, b) == IF a < b THEN a ELSE b

Species == {"A", "B"}
Confidences == {0, 80, 100}
Timestamps == {[hour |-> 0, tz |-> FALSE, offset |-> 0],
               [hour |-> 23, tz |-> TRUE, offset |-> 5]}

\* ids are opaque and unique; the upstream orders records by position
IdOf(p) == 1000 - p
PosOf(id) == 1000 - id

---------------------------------------------------------------------------
(* The upstream API: GET .../detections *)

Defects == {"none", "noId", "noTimestamp", "noConfidence", "noCommonName",
            "noScientificName", "noImageUrl", "nullImageUrl",
            "noSoundscape", "nullSoundscape"}

Field(present, k, v) == IF present THEN k :> v ELSE [x \in {} |-> v]

\* the JSON object of the detection at position p of the window
Detection(p, sp, conf, ts, defect) ==
    Field(defect # "noId", "id", IdOf(p))
    @@ Field(defect # "noTimestamp", "timestamp", ts)
    @@ Field(defect # "noConfidence", "confidence", conf)
    @@ ("species" :>
           (Field(defect # "noCommonName", "commonName", sp)
            @@ Field(defect # "noScientificName", "scientificName",
                     Tok("scientificName", p))
            @@ Field(defect # "noImageUrl", "imageUrl",
                     IF defect = "nullImageUrl" THEN None
                     ELSE Tok("imageUrl", p))))
    @@ Field(defect # "noSoundscape", "soundscape",
             IF defect = "nullSoundscape" THEN None
             ELSE Tok("soundscape", p))

WellFormed == [sp : Species, conf : Confidences, ts : Timestamps]

\* pages of n regular records after position pos
RegularPages(pos, n) ==
    { [j \in 1..n |->
          Detection(pos + j, w[j].sp, w[j].conf, w[j].ts, "none")] :
      w \in [1..n -> WellFormed] }

\* pages of n records after position pos, exactly one of them irregular;
\* these are shorter and all carry the same timestamp
IrregularPages(pos, n) ==
    IF n >= MaxRecords THEN {}
    ELSE { [j \in 1..n |->
              Detection(pos + j, w[j].sp, w[j].conf,
                        [hour |-> 0, tz |-> FALSE, offset |-> 0],
                        IF j = k THEN df ELSE "none")] :
           w \in [1..n -> [sp : Species, conf : Confidences]],
           k \in 1..n, df \in Defects \ {"none"} }

FreePages(pos, n) == RegularPages(pos, n) \cup IrregularPages(pos, n)

\* a long page: regular records cycling through species, confidences and
\* hours; those of hour 23 come with and without a zone
PatternPage(pos, n) ==
    [j \in 1..n |->
        LET p == pos + j IN
        Detection(p,
                  IF p % 3 = 1 THEN "A" ELSE "B",
                  IF p % 4 = 0 THEN 100 ELSE IF p % 4 = 1 THEN 80 ELSE 0,
                  [hour |-> IF p % 2 = 0 THEN 0 ELSE 23,
                   tz |-> p % 4 = 1, offset |-> IF p % 4 = 1 THEN 5 ELSE 0],
                  "none")]

\* the page the upstream serves for request parameters q
PagesFor(q) ==
    LET pos == IF Has(q, "cursor") THEN PosOf(q.cursor) ELSE 0
        n   == IF total > pos THEN Min(q.limit, total - pos) ELSE 0
    IN  IF n = 0 THEN {<<>>}
        ELSE IF n <= MaxRecords THEN FreePages(pos, n)
        ELSE {PatternPage(pos, n)}

NotJson == [type |-> "notjson"]

\* what requests.get / response.json() can give for request parameters q
Responses(q) ==
    {[raised |-> TRUE, status |-> 0, body |-> NotJson]}
    \cup {[raised |-> FALSE, status |-> st, body |-> b] :
            st \in {200, 500},
            b \in {NotJson, [message |-> "error"], [success |-> FALSE],
                   [success |-> TRUE]}}
    \cup {[raised |-> FALSE, status |-> 200,
           body |-> [success |-> FALSE, detections |-> PatternPage(0, n)]] :
            n \in 0..2}
    \cup {[raised |-> FALSE, status |-> 200,
           body |-> [success |-> TRUE, detections |-> page]] :
            page \in PagesFor(q)}

\* sizes of the window; 59 records give hour counts of 10 and of 20
Totals == (0..MaxRecords)
          \cup {k * Limit + r : k \in 0..MaxFullPages, r \in {0, 47}}
          \cup {59}

---------------------------------------------------------------------------
(* fetch_bird_detections *)

Last(s) == s[Len(s)]

\* Classify with a bug: an empty detections array is not tested for, so
\* data['detections'][-1] raises IndexError
ClassifyEmptyRaises(resp) ==
    IF resp.raised \/ resp.body = NotJson \/ ~Has(resp.body, "success")
    THEN "raise"
    ELSE IF ~resp.body.success THEN "break"
    ELSE IF ~Has(resp.body, "detections") THEN "raise"
    ELSE IF resp.body.detections = <<>> THEN "raise"
    ELSE "page"

\* Classify with a bug: data['success'] is not looked at
ClassifyIgnoresSuccess(resp) ==
    IF resp.raised \/ resp.body = NotJson \/ ~Has(resp.body, "detections")
    THEN "raise"
    ELSE IF resp.body.detections = <<>> THEN "break"
    ELSE "page"

\* what lines 35-39 make of a response: "raise" (requests.get or
\* response.json() raised, or a key of data is absent), "break", or "page"
Classify(resp) ==
    IF resp.raised \/ resp.body = NotJson \/ ~Has(resp.body, "success")
    THEN "raise"
    ELSE IF ~resp.body.success THEN "break"
    ELSE IF ~Has(resp.body, "detections") THEN "raise"
    ELSE IF resp.body.detections = <<>> THEN "break"
    ELSE "page"

\* Extend with a bug: detections = data['detections']
ExtendReplaces(acc, page) == page

\* detections.extend(data['detections'])
Extend(acc, page) == acc \o page

\* LastId with a bug: data['detections'][0]['id']
FirstId(page) == page[1].id

\* data['detections'][-1]['id']
LastId(page) == Last(page).id

\* IsShort with a bug: the short-page test is left out
IsShortNever(page) == FALSE

\* len(data['detections']) < 100
IsShort(page) == Len(page) < Limit

\* one iteration of the while loop, given the response to its request
Iterate(resp) ==
    LET page == resp.body.detections
    IN  /\ requests' = Append(requests, params)
        /\ responses' = Append(responses, resp)
        /\ CASE Classify(resp) = "raise" ->
                  /\ pc' = "raised_in_fetch"
                  /\ UNCHANGED <<params, detections>>
             [] Classify(resp) = "break" ->
                  /\ pc' = "fold"
                  /\ UNCHANGED <<params, detections>>
             [] Classify(resp) = "page" ->
                  /\ detections' = Extend(detections, page)
                  /\ IF ~Has(Last(page), "id")
                     THEN pc' = "raised_in_fetch" /\ UNCHANGED params
                     ELSE IF IsShort(page)
                     THEN pc' = "fold" /\ UNCHANGED params
                     ELSE /\ pc' = "fetch"
                          /\ params' = [limit |-> params.limit,
                                        order |-> params.order,
                                        cursor |-> LastId(page)]

Fetch ==
    /\ pc = "fetch"
    /\ Len(requests) <= MaxFullPages + 1
    /\ \E resp \in Responses(params) : Iterate(resp)
    /\ UNCHANGED <<total, species_stats, folded, sorted_species>>

---------------------------------------------------------------------------
(* generate_report: the fold over the detections *)

EmptyCounts == [h \in {} |-> 0]

\* the defaultdict's factory
DefaultStat ==
    [count |-> 0, max_confidence |-> 0, hour_counts |-> EmptyCounts,
     scientific_name |-> None, image_url |-> None, best_soundscape |-> None]

Keys(stats) == {stats[i].k : i \in 1..Len(stats)}

IndexOf(stats, name) == CHOOSE i \in 1..Len(stats) : stats[i].k = name

\* GetOrCreate with a bug: the entry is set to a fresh default each time
GetOrCreateFresh(stats, name) ==
    IF name \in Keys(stats)
    THEN [stats EXCEPT ![IndexOf(stats, name)].v = DefaultStat]
    ELSE Append(stats, [k |-> name, v |-> DefaultStat])

\* species_stats[name]: a missing key is inserted, last, with the default
GetOrCreate(stats, name) ==
    IF name \in Keys(stats) THEN stats
    ELSE Append(stats, [k |-> name, v |-> DefaultStat])

\* HourOf with a bug: astimezone(timezone.utc).hour, which converts a
\* timestamp that has a zone
HourOfUtc(ts) == IF ts.tz THEN (ts.hour - ts.offset) % 24 ELSE ts.hour

\* datetime.fromisoformat(ts).replace(tzinfo=None).hour: the zone is
\* dropped, not converted
HourOf(ts) == ts.hour

\* Increment with a bug: hour_counts[hour] = 1
IncrementAssigns(counts, h) ==
    IF h \in DOMAIN counts THEN [counts EXCEPT ![h] = 1]
    ELSE counts @@ (h :> 1)

\* hour_counts[hour] += 1 on a defaultdict(int)
Increment(counts, h) ==
    IF h \in DOMAIN counts THEN [counts EXCEPT ![h] = @ + 1]
    ELSE counts @@ (h :> 1)

\* Exceeds with a bug: the comparison reversed
ExceedsReversed(confidence, max_confidence) == confidence < max_confidence

\* Exceeds with a bug: >= for >, so a tie replaces the best soundscape
ExceedsOrEquals(confidence, max_confidence) == confidence >= max_confidence

\* confidence > stats['max_confidence']
Exceeds(confidence, max_confidence) == confidence > max_confidence

\* Overwrite with a bug: only a field still None is set
OverwriteIfUnset(old, new) == IF old = None THEN new ELSE old

\* stats['scientific_name'] = ..., stats['image_url'] = ...
Overwrite(old, new) == new

\* the body of the for loop on detection d: the dict it leaves, and whether
\* it raised (KeyError on an absent key) on the way
FoldRecord(stats, d) ==
    IF ~Has(d, "species") \/ ~Has(d.species, "commonName")
        \/ ~Has(d, "timestamp")
    THEN [stats |-> stats, raised |-> TRUE]
    ELSE
    LET hour == HourOf(d.timestamp)
        s67  == GetOrCreate(stats, d.species.commonName)
        i    == IndexOf(s67, d.species.commonName)
        Put(v) == [s67 EXCEPT ![i].v = v]
        v68  == [s67[i].v EXCEPT !.count = @ + 1]
    IN  IF ~Has(d.species, "scientificName")
        THEN [stats |-> Put(v68), raised |-> TRUE]
        ELSE
        LET v69 == [v68 EXCEPT !.scientific_name =
                            Overwrite(@, d.species.scientificName)]
        IN  IF ~Has(d.species, "imageUrl")
            THEN [stats |-> Put(v69), raised |-> TRUE]
            ELSE
            LET v70 == [v69 EXCEPT !.image_url =
                                Overwrite(@, d.species.imageUrl)]
            IN  IF ~Has(d, "confidence")
                THEN [stats |-> Put(v70), raised |-> TRUE]
                ELSE IF ~Exceeds(d.confidence, v70.max_confidence)
                THEN [stats |-> Put([v70 EXCEPT !.hour_counts =
                                        Increment(@, hour)]),
                      raised |-> FALSE]
                ELSE
                LET v74 == [v70 EXCEPT !.max_confidence = d.confidence]
                IN  IF ~Has(d, "soundscape")
                    THEN [stats |-> Put(v74), raised |-> TRUE]
                    ELSE [stats |-> Put([v74 EXCEPT
                                     !.best_soundscape = d.soundscape,
                                     !.hour_counts = Increment(@, hour)]),
                          raised |-> FALSE]

Fold ==
    /\ pc = "fold"
    /\ folded < Len(detections)
    /\ LET r == FoldRecord(species_stats, detections[folded + 1])
       IN  /\ species_stats' = r.stats
           /\ IF r.raised
              THEN pc' = "raised_in_fold" /\ UNCHANGED folded
              ELSE pc' = "fold" /\ folded' = folded + 1
    /\ UNCHANGED <<total, params, detections, requests, responses,
                   sorted_species>>

---------------------------------------------------------------------------
(* generate_report: ranking and hour cells *)

\* {'name': k, **v}
Summary(e) ==
    [name |-> e.k, count |-> e.v.count,
     max_confidence |-> e.v.max_confidence,
     hour_counts |-> e.v.hour_counts,
     scientific_name |-> e.v.scientific_name,
     image_url |-> e.v.image_url,
     best_soundscape |-> e.v.best_soundscape]

\* InsertAt with a bug: in front of the elements of equal count, as in a
\* sort that is not stable
InsertAtUnstable(t, x) ==
    Cardinality({i \in 1..Len(t) : t[i].count > x.count})

\* where x goes in a list already sorted by count, descending: behind
\* every element whose count is not smaller (equal counts keep their order)
InsertAt(t, x) == Cardinality({i \in 1..Len(t) : t[i].count >= x.count})

\* sorted(list, key=count, reverse=True)
RECURSIVE SortedByCount(_)
SortedByCount(s) ==
    IF s = <<>> THEN <<>>
    ELSE LET t == SortedByCount(SubSeq(s, 1, Len(s) - 1))
             x == s[Len(s)]
             k == InsertAt(t, x)
         IN  SubSeq(t, 1, k) \o <<x>> \o SubSeq(t, k + 1, Len(t))

\* hour_counts.get(hour, 0)
Get(counts, h) == IF h \in DOMAIN counts THEN counts[h] ELSE 0

\* Intensity with a bug: the cap is left out
IntensityUnclamped(count) == count * ScaleFactor

\* AfterGet with a bug: hour_counts[hour], which on a defaultdict inserts
\* the missing key
AfterSubscript(counts, h) ==
    IF h \in DOMAIN counts THEN counts ELSE counts @@ (h :> 0)

\* the dict after hour_counts.get(hour, 0): get inserts nothing
AfterGet(counts, h) == counts

\* the hour_counts dict after the reads for hours 0 .. n - 1 of range(24)
RECURSIVE AfterReads(_, _)
AfterReads(counts, n) ==
    IF n = 0 THEN counts
    ELSE AfterGet(AfterReads(counts, n - 1), n - 1)

\* min(count * 25, 255)
Intensity(count) == Min(count * ScaleFactor, CapValue)

\* Hours with a bug: range(1, 25)
HoursFromOne(counts) ==
    [c \in 1..24 |->
        [hour |-> c, count |-> Get(counts, c),
         intensity |-> Intensity(Get(counts, c))]]

\* the list comprehension over range(24); cell h + 1 is hour h
Hours(counts) ==
    [c \in 1..24 |->
        [hour |-> c - 1, count |-> Get(counts, c - 1),
         intensity |-> Intensity(Get(counts, c - 1))]]

\* species_list|sum(attribute='count')
RECURSIVE TotalCount(_)
TotalCount(list) ==
    IF list = <<>> THEN 0
    ELSE TotalCount(SubSeq(list, 1, Len(list) - 1)) + list[Len(list)].count

\* species_list|length
SpeciesCount(list) == Len(list)

Rank ==
    /\ pc = "fold"
    /\ folded = Len(detections)
    /\ sorted_species' =
           SortedByCount([i \in 1..Len(species_stats) |->
                              Summary(species_stats[i])])
    /\ pc' = "cells"
    /\ UNCHANGED <<total, params, detections, requests, responses,
                   species_stats, folded>>

\* {'name': k, **v} copies the keys of v, not its values: the hour_counts
\* dict of a ranked species is the one of the aggregate, so what the reads
\* of the loop do to it shows in both
Cells ==
    /\ pc = "cells"
    /\ sorted_species' =
           [i \in 1..Len(sorted_species) |->
               [name |-> sorted_species[i].name,
                count |-> sorted_species[i].count,
                max_confidence |-> sorted_species[i].max_confidence,
                hour_counts |-> AfterReads(sorted_species[i].hour_counts, 24),
                scientific_name |-> sorted_species[i].scientific_name,
                image_url |-> sorted_species[i].image_url,
                best_soundscape |-> sorted_species[i].best_soundscape,
                hours |-> Hours(sorted_species[i].hour_counts)]]
    /\ species_stats' =
           [i \in 1..Len(species_stats) |->
               [species_stats[i] EXCEPT
                   !.v.hour_counts = AfterReads(@, 24)]]
    /\ pc' = "done"
    /\ UNCHANGED <<total, params, detections, requests, responses, folded>>

---------------------------------------------------------------------------

Init ==
    /\ total \in Totals
    /\ pc = "fetch"
    /\ params = [limit |-> Limit, order |-> "desc"]
    /\ detections = <<>>
    /\ requests = <<>>
    /\ responses = <<>>
    /\ species_stats = <<>>
    /\ folded = 0
    /\ sorted_species = <<>>

Next == Fetch \/ Fold \/ Rank \/ Cells

Spec == Init /\ [][Next]_vars

---------------------------------------------------------------------------
(* Properties *)

Raised == pc \in {"raised_in_fetch", "raised_in_fold"}
Returned == pc \in {"fold", "cells", "done"}
Ranked == pc \in {"cells", "done"}

RECURSIVE SumOver(_, _)
SumOver(f, S) ==
    IF S = {} THEN 0
    ELSE LET h == CHOOSE x \in S : TRUE IN f[h] + SumOver(f, S \ {h})

MaxOf(S) == CHOOSE m \in S : \A x \in S : x <= m
MinOf(S) == CHOOSE m \in S : \A x \in S : m <= x

\* the folded records of species name, by position in detections
FoldedOf(name) ==
    {j \in 1..folded : detections[j].species.commonName = name}

SoundscapeOf(d) == IF Has(d, "soundscape") THEN d.soundscape ELSE None

\* C1: after any prefix of the records has been folded, every species'
\* hour counts sum to its count.
HourCountsSumToCount ==
    ~Raised =>
        \A i \in 1..Len(species_stats) :
            LET v == species_stats[i].v
            IN  SumOver(v.hour_counts, DOMAIN v.hour_counts) = v.count

\* a species with three records folded into two hour buckets
HourCountsWitness ==
    /\ pc = "fold"
    /\ \E i \in 1..Len(species_stats) :
          /\ species_stats[i].v.count = 3
          /\ Cardinality(DOMAIN species_stats[i].v.hour_counts) = 2

MaxConfidenceIsMax ==
    ~Raised =>
        \A i \in 1..Len(species_stats) :
            LET js == FoldedOf(species_stats[i].k)
                m  == species_stats[i].v.max_confidence
            IN  /\ js # {}
                /\ m = MaxOf({detections[j].confidence : j \in js})
                /\ m \in 0..100

MaxConfidenceGrows ==
    \A i \in 1..Len(species_stats) :
        /\ i <= Len(species_stats')
        /\ species_stats'[i].k = species_stats[i].k
        /\ species_stats'[i].v.max_confidence
               >= species_stats[i].v.max_confidence

\* C2: after any prefix of the records has been folded, every species'
\* max_confidence is the maximum of the confidences of its folded records,
\* lies in [0, 1], and no step of the fold decreases it.
MaxConfidenceTrueAndMonotone ==
    []MaxConfidenceIsMax /\ [][MaxConfidenceGrows]_vars

\* a species whose maximum was set by a record that is not its last one
MaxConfidenceWitness ==
    /\ pc = "fold"
    /\ \E i \in 1..Len(species_stats) :
          LET js == FoldedOf(species_stats[i].k)
          IN  /\ Cardinality(js) >= 2
              /\ species_stats[i].v.max_confidence = 100
              /\ detections[MaxOf(js)].confidence = 80

\* C3 as claimed: every species' best_soundscape is the soundscape of its
\* first folded record whose confidence equals its max_confidence.
BestSoundscapeIsFirstAtMax ==
    ~Raised =>
        \A i \in 1..Len(species_stats) :
            LET js == FoldedOf(species_stats[i].k)
                v  == species_stats[i].v
                at == {j \in js : detections[j].confidence = v.max_confidence}
            IN  /\ at # {}
                /\ v.best_soundscape = SoundscapeOf(detections[MinOf(at)])

\* C3 amended: a species whose max_confidence is positive has the soundscape
\* of its first folded record whose confidence equals max_confidence; a
\* species all of whose records have confidence 0 has no best_soundscape.
BestSoundscapeIsFirstAtPositiveMax ==
    ~Raised =>
        \A i \in 1..Len(species_stats) :
            LET js == FoldedOf(species_stats[i].k)
                v  == species_stats[i].v
                at == {j \in js : detections[j].confidence = v.max_confidence}
            IN  IF v.max_confidence > 0
                THEN /\ at # {}
                     /\ v.best_soundscape = SoundscapeOf(detections[MinOf(at)])
                ELSE v.best_soundscape = None

\* two records of a species tie at its positive maximum, and the first one's
\* soundscape is kept
BestSoundscapeWitness ==
    /\ pc = "fold"
    /\ \E i \in 1..Len(species_stats) :
          LET js == FoldedOf(species_stats[i].k)
              v  == species_stats[i].v
              at == {j \in js : detections[j].confidence = v.max_confidence}
          IN  /\ v.max_confidence > 0
              /\ Cardinality(at) >= 2
              /\ v.best_soundscape = detections[MinOf(at)].soundscape
              /\ v.best_soundscape # detections[MaxOf(at)].soundscape

\* position in detections of the first record of species name
FirstSeen(name) ==
    MinOf({j \in 1..Len(detections) :
              detections[j].species.commonName = name})

\* C4: the ranked list holds each species once, by count descending, and
\* species of equal count in the order of their first records.
RankedByCountStable ==
    Ranked =>
        /\ {sorted_species[i].name : i \in 1..Len(sorted_species)}
              = {detections[j].species.commonName : j \in 1..Len(detections)}
        /\ \A i, j \in 1..Len(sorted_species) :
              i < j =>
                 /\ sorted_species[i].name # sorted_species[j].name
                 /\ sorted_species[i].count >= sorted_species[j].count
                 /\ sorted_species[i].count = sorted_species[j].count
                      => FirstSeen(sorted_species[i].name)
                           < FirstSeen(sorted_species[j].name)

\* two species tie on count in a finished ranking
RankedTieWitness ==
    /\ pc = "done"
    /\ Len(sorted_species) = 2
    /\ sorted_species[1].count = sorted_species[2].count

\* a response that parsed, with success true and a detections array
IsSuccessPage(r) ==
    /\ ~r.raised
    /\ r.body # NotJson
    /\ Has(r.body, "success")
    /\ r.body.success
    /\ Has(r.body, "detections")

\* a response that parsed and has success false or no detections
IsStop(r) ==
    /\ ~r.raised
    /\ r.body # NotJson
    /\ Has(r.body, "success")
    /\ \/ ~r.body.success
       \/ Has(r.body, "detections") /\ r.body.detections = <<>>

RECURSIVE ConcatDetections(_)
ConcatDetections(rs) ==
    IF rs = <<>> THEN <<>>
    ELSE ConcatDetections(SubSeq(rs, 1, Len(rs) - 1))
             \o rs[Len(rs)].body.detections

AllNonEmptyPages ==
    \A i \in 1..Len(responses) :
        IsSuccessPage(responses[i]) /\ responses[i].body.detections # <<>>

\* C5: the first request has no cursor; every later request has the cursor
\* set to the id of the last record of the page received just before it;
\* and when every response was a page of records and the last one was short,
\* there were as many requests as the upstream has pages (3 for 247 records).
CursorProtocol ==
    /\ \A i \in 1..Len(requests) :
          IF i = 1 THEN ~Has(requests[i], "cursor")
          ELSE /\ Has(requests[i], "cursor")
               /\ IsSuccessPage(responses[i - 1])
               /\ responses[i - 1].body.detections # <<>>
               /\ requests[i].cursor
                    = Last(responses[i - 1].body.detections).id
    /\ (/\ Returned
        /\ AllNonEmptyPages
        /\ Len(Last(responses).body.detections) < Limit)
       => /\ Len(requests) = (total + Limit - 1) \div Limit
          /\ total = 2 * Limit + 47 => Len(requests) = 3

\* pages of 100, 100 and 47 records were received in three requests
CursorProtocolWitness ==
    /\ Returned
    /\ Len(requests) = 3
    /\ AllNonEmptyPages
    /\ Len(responses[1].body.detections) = 100
    /\ Len(responses[2].body.detections) = 100
    /\ Len(responses[3].body.detections) = 47

\* C6: what fetch_bird_detections returns is the concatenation, in request
\* order, of the detections of the responses received with success true.
ReturnedIsConcatenation ==
    Returned =>
        detections = ConcatDetections(SelectSeq(responses, IsSuccessPage))

\* two full pages and then an empty one were received
ConcatenationWitness ==
    /\ Returned
    /\ Len(responses) = 3
    /\ Len(detections) = 2 * Limit
    /\ detections[1] # detections[Limit + 1]

\* a request failed: in transport, by its HTTP status, or by a body that is
\* not the JSON object the code reads
Failed(r) ==
    \/ r.raised
    \/ r.status # 200
    \/ r.body = NotJson
    \/ ~Has(r.body, "success")
    \/ r.body.success /\ ~Has(r.body, "detections")

\* C7 as claimed: no report is produced once a page request has failed.
NoReportAfterFailedRequest ==
    pc = "done" => \A i \in 1..Len(responses) : ~Failed(responses[i])

\* C8: a response with success false or with no records is the last one:
\* the fetcher returns what it had accumulated from the pages before it;
\* when it is the first response and has success false there was one request
\* and no species is aggregated.
StopEndsPagination ==
    \A i \in 1..Len(responses) :
        IsStop(responses[i]) =>
            /\ i = Len(responses)
            /\ Len(requests) = i
            /\ Returned
            /\ \A j \in 1..(i - 1) : IsSuccessPage(responses[j])
            /\ detections = ConcatDetections(SubSeq(responses, 1, i - 1))
            /\ (i = 1 /\ ~responses[i].body.success)
                 => /\ species_stats = <<>>
                    /\ sorted_species = <<>>

\* after a full page, a response with success false that carries records
StopEndsPaginationWitness ==
    /\ Len(responses) = 2
    /\ IsStop(responses[2])
    /\ Has(responses[2].body, "detections")
    /\ responses[2].body.detections # <<>>
    /\ Len(detections) = Limit
    /\ pc = "done"

\* the fields the specification requires of a record
HasRequired(d) ==
    /\ Has(d, "id")
    /\ Has(d, "timestamp")
    /\ Has(d, "confidence")
    /\ Has(d, "species")
    /\ Has(d.species, "commonName")
    /\ Has(d.species, "scientificName")

\* C9 as claimed: no report is produced when a fetched record lacks a
\* required field.
MalformedRecordFailsClosed ==
    pc = "done" => \A j \in 1..Len(detections) : HasRequired(detections[j])

\* C10 as claimed: the fold raises on no record that has every required
\* field, whether or not imageUrl and soundscape are present.
OptionalAbsenceIsNoError ==
    pc = "raised_in_fold" => ~HasRequired(detections[folded + 1])

\* the first response was successful with an empty detections array
EmptyWindow ==
    /\ responses # <<>>
    /\ IsSuccessPage(responses[1])
    /\ responses[1].body.detections = <<>>

\* C11: when the first response is successful and has no detections,
\* generate_report runs to its end without raising, after one request, and
\* its species list is empty: zero species and a total count of zero.
EmptyWindowGivesEmptyReport ==
    EmptyWindow =>
        /\ ~Raised
        /\ Len(requests) = 1
        /\ detections = <<>>
        /\ species_stats = <<>>
        /\ sorted_species = <<>>
        /\ SpeciesCount(sorted_species) = 0
        /\ TotalCount(sorted_species) = 0
        /\ pc = "done" \/ ENABLED Next

\* the report of an empty window is finished
EmptyWindowWitness ==
    /\ EmptyWindow
    /\ total = 0
    /\ pc = "done"
    /\ SpeciesCount(sorted_species) = 0

\* the aggregate's entry for species name
StatOf(name) == species_stats[IndexOf(species_stats, name)].v

\* C12: in the finished list, the cell of every species and hour h has the
\* intensity min(raw * 25, 255), raw being the species' hour_counts[h] (0
\* when absent): it lies in 0..255, is 250 for raw 10 and 255 for raw >= 11.
IntensityIsClampedScale ==
    pc = "done" =>
        \A i \in 1..Len(sorted_species) :
            \A h \in 0..23 :
                LET counts == StatOf(sorted_species[i].name).hour_counts
                    raw    == IF h \in DOMAIN counts THEN counts[h] ELSE 0
                    cell   == sorted_species[i].hours[h + 1]
                IN  /\ cell.intensity
                         = (IF raw * 25 < 255 THEN raw * 25 ELSE 255)
                    /\ cell.intensity \in 0..255
                    /\ raw = 10 => cell.intensity = 250
                    /\ raw >= 11 => cell.intensity = 255

\* a finished list with a cell of raw count 10 and a cell of raw count 20
IntensityWitness ==
    /\ pc = "done"
    /\ \E i, j \in 1..Len(sorted_species) :
          \E g, h \in 1..24 :
              /\ sorted_species[i].hours[g].count = 10
              /\ sorted_species[i].hours[g].intensity = 250
              /\ sorted_species[j].hours[h].count = 20
              /\ sorted_species[j].hours[h].intensity = 255

\* every request so far was answered with success true and the records
\* the upstream holds after the cursor
AllServed == \A i \in 1..Len(responses) : IsSuccessPage(responses[i])

\* C13: the pagination loop ends: every iteration issues one request, and
\* there are never more than n div 100 + 1 of them, n being the number of
\* records the upstream holds; when every request is answered with the
\* records after its cursor, in pages of 100, the loop ends after exactly
\* n div 100 + 1 requests (the last one answered by an empty page when n is
\* a positive multiple of 100); a page of fewer than 100 records is the last.
FetchStopsOnTime ==
    /\ Len(requests) <= total \div 100 + 1
    /\ pc = "fetch" =>
          /\ Len(requests) <= total \div 100
          /\ Len(requests) * 100 = Len(detections)
          /\ ENABLED Fetch
    /\ (AllServed /\ Returned) =>
          /\ Len(requests) = total \div 100 + 1
          /\ Len(detections) = total
          /\ (total > 0 /\ total % 100 = 0)
               => Last(responses).body.detections = <<>>
    /\ \A i \in 1..Len(responses) :
          (/\ IsSuccessPage(responses[i])
           /\ Len(responses[i].body.detections) < 100)
             => i = Len(responses) /\ pc # "fetch"

\* 200 records took three requests, the third answered by an empty page
FetchStopsWitness ==
    /\ Returned
    /\ AllServed
    /\ total = 200
    /\ Len(requests) = 3
    /\ Last(responses).body.detections = <<>>
    /\ Len(detections) = 200

\* C14: after any prefix of the records has been folded, and in the ranked
\* list, every species has the scientific name and image url of its last
\* folded record, whatever that record's confidence.
MetadataFromLastRecord ==
    /\ ~Raised =>
          \A i \in 1..Len(species_stats) :
              LET d == detections[MaxOf(FoldedOf(species_stats[i].k))]
              IN  /\ species_stats[i].v.scientific_name
                        = d.species.scientificName
                  /\ species_stats[i].v.image_url = d.species.imageUrl
    /\ Ranked =>
          \A i \in 1..Len(sorted_species) :
              LET d == detections[MaxOf(FoldedOf(sorted_species[i].name))]
              IN  /\ sorted_species[i].scientific_name
                        = d.species.scientificName
                  /\ sorted_species[i].image_url = d.species.imageUrl

\* a finished species whose best soundscape is its first record's and whose
\* name and image are its last record's, of lower confidence
MetadataWitness ==
    /\ pc = "done"
    /\ \E i \in 1..Len(sorted_species) :
          LET js    == FoldedOf(sorted_species[i].name)
              first == detections[MinOf(js)]
              last  == detections[MaxOf(js)]
          IN  /\ Cardinality(js) >= 2
              /\ last.confidence < first.confidence
              /\ sorted_species[i].best_soundscape = first.soundscape
              /\ sorted_species[i].image_url = last.species.imageUrl
              /\ sorted_species[i].image_url # first.species.imageUrl

RECURSIVE SumCells(_)
SumCells(cells) ==
    IF cells = <<>> THEN 0
    ELSE SumCells(SubSeq(cells, 1, Len(cells) - 1)) + cells[Len(cells)].count

\* C15: every species of the finished list has 24 cells, for the hours
\* 0..23 in that order; the count of cell h is the number of the species'
\* folded records whose timestamp has hour h; the counts of the cells sum
\* to the species' count.
HourCellsCountRecords ==
    pc = "done" =>
        \A i \in 1..Len(sorted_species) :
            LET cells == sorted_species[i].hours
            IN  /\ DOMAIN cells = 1..24
                /\ \A c \in 1..24 :
                      /\ cells[c].hour = c - 1
                      /\ cells[c].count =
                            Cardinality(
                               {j \in FoldedOf(sorted_species[i].name) :
                                   detections[j].timestamp.hour = c - 1})
                /\ SumCells(cells) = sorted_species[i].count

\* a finished species with records in hours 0 and 23 and none in hour 12
HourCellsWitness ==
    /\ pc = "done"
    /\ \E i \in 1..Len(sorted_species) :
          /\ sorted_species[i].hours[1].count = 2
          /\ sorted_species[i].hours[24].count = 1
          /\ sorted_species[i].hours[13].count = 0
          /\ sorted_species[i].count = 3

\* C16: the steps after the fold (the sort, the hour cells) leave the
\* aggregate as the fold built it: the species, their order, and every
\* species' count, max_confidence, best_soundscape and hour_counts, with
\* the same hour buckets present.
RankingLeavesAggregate ==
    [][(pc' \in {"cells", "done"}) => species_stats' = species_stats]_vars

\* a finished report whose ranking reordered the species, and a species
\* with hour buckets that have no entry
RankingLeavesAggregateWitness ==
    /\ pc = "done"
    /\ Len(species_stats) = 2
    /\ sorted_species[1].name = species_stats[2].k
    /\ Cardinality(DOMAIN species_stats[1].v.hour_counts) = 1
    /\ sorted_species[2].hour_counts = species_stats[1].v.hour_counts

\* C17: after any prefix of the records has been folded, the hour buckets
\* of every species are within 0..23, and bucket h counts the species'
\* folded records whose timestamp is written with hour h, with or without
\* a zone.
HourBucketIsWrittenHour ==
    ~Raised =>
        \A i \in 1..Len(species_stats) :
            LET counts == species_stats[i].v.hour_counts
                js     == FoldedOf(species_stats[i].k)
            IN  /\ DOMAIN counts \subseteq 0..23
                /\ DOMAIN counts = {detections[j].timestamp.hour : j \in js}
                /\ \A h \in DOMAIN counts :
                      counts[h] =
                         Cardinality({j \in js :
                                         detections[j].timestamp.hour = h})

\* two folded records of a species are written with hour 23, one with a
\* zone and one without, and both are in bucket 23
HourBucketWitness ==
    /\ pc = "fold"
    /\ \E i \in 1..Len(species_stats) :
          \E j, k \in FoldedOf(species_stats[i].k) :
              /\ detections[j].timestamp.hour = 23
              /\ detections[k].timestamp.hour = 23
              /\ detections[j].timestamp.tz
              /\ ~detections[k].timestamp.tz
              /\ species_stats[i].v.hour_counts[23] = 2

RECURSIVE SumCounts(_)
SumCounts(stats) ==
    IF stats = <<>> THEN 0
    ELSE SumCounts(SubSeq(stats, 1, Len(stats) - 1))
             + stats[Len(stats)].v.count

\* C18: after any prefix of the records has been folded, the counts of the
\* species sum to the number of records folded, each species' count being
\* the number of folded records of its common name and no species being
\* there twice; the total of the finished report is the number of records
\* fetch_bird_detections returned.
RecordsAreConserved ==
    /\ ~Raised =>
          /\ SumCounts(species_stats) = folded
          /\ \A i \in 1..Len(species_stats) :
                /\ species_stats[i].v.count
                      = Cardinality(FoldedOf(species_stats[i].k))
                /\ \A j \in 1..Len(species_stats) :
                      species_stats[i].k = species_stats[j].k => i = j
    /\ Ranked =>
          /\ folded = Len(detections)
          /\ TotalCount(sorted_species) = Len(detections)

\* a finished report of two species whose counts, 1 and 2, total the three
\* records fetched
RecordsAreConservedWitness ==
    /\ pc = "done"
    /\ Len(detections) = 3
    /\ Len(sorted_species) = 2
    /\ sorted_species[1].count = 2
    /\ sorted_species[2].count = 1
    /\ TotalCount(sorted_species) = 3

====
